---- MODULE Spec2Model ----
(***************************************************************************)
(* Model of src/src/App.tsx: the sizing calculator.                        *)
(*                                                                         *)
(* A text is a sequence of one-character strings.  A number of weeks is    *)
(* an integer number of TENTHS of a week, so that the table of             *)
(* sizingToWeeks (3/5, 1, 3, 6, 14, 16) is the integers 6, 10, 30, 60,     *)
(* 140, 160.  The code adds IEEE doubles; for every vector of counts whose *)
(* sum can fall at or below 16 the double sum and the exact sum fall on    *)
(* the same side of every threshold (checked by enumeration outside the    *)
(* model), so the exact arithmetic decides the same comparisons.           *)
(***************************************************************************)
EXTENDS Integers, Sequences, FiniteSets, TLC

VARIABLES
  size,             \* signal size: the text of the input field
  error,            \* signal error: "" or "Invalid formatting"
  minComputedSize,  \* signal minComputedSize: <<>> ('') or a label
  maxComputedSize,  \* signal maxComputedSize: <<>> ('') or a label
  sizes,            \* the token list of the last call (local sizes)
  sizeCount,        \* the counters of the last run of computeSizing
  called,           \* computeSizing ran during the last input event
  thrown,           \* the last call ended in a TypeError
  pending,          \* input events not yet dispatched (at most one)
  numberOfWeeks,    \* argument of getSizingFromNumberOfWeeks, in tenths
  ret,              \* value returned by the function that was applied
  pc                \* "app", "call" (a function is to be applied), "done"

vars == <<size, error, minComputedSize, maxComputedSize, sizes, sizeCount,
          called, thrown, pending, numberOfWeeks, ret, pc>>

-----------------------------------------------------------------------------
(* Bounds *)

MaxTextLen == 5    \* longest text of a single dispatched input event
MaxEventLen == 2   \* longest text drawn exhaustively in a sequence of events
MaxTokens == 3     \* longest token list handed to computeSizing directly
MaxWeeks == 200    \* largest total (in tenths) handed to the threshold mapper

-----------------------------------------------------------------------------
(* The alphabet of the input field.  "s" is a lower-case letter: it makes  *)
(* unknown and wrongly-cased words.  "X" alone, "SS", ... are unknown too. *)

Letters == {"X", "S", "M", "L", "s"}
Separators == {",", " "}
Chars == Letters \cup Separators \cup {"/"}

Texts(n) == UNION {[1..k -> Chars] : k \in 0..n}

-----------------------------------------------------------------------------
(* type Size and the table sizingToWeeks *)

XS == <<"X", "S">>
S == <<"S">>
M == <<"M">>
L == <<"L">>
XL == <<"X", "L">>
XXL == <<"X", "X", "L">>

\* Object.entries(sizingToWeeks) / Object.keys(sizingToWeeks): insertion order
SizeKeys == <<XS, S, M, L, XL, XXL>>

Size == {SizeKeys[i] : i \in DOMAIN SizeKeys}

sizingToWeeks ==
  (XS :> 6) @@ (S :> 10) @@ (M :> 30) @@ (L :> 60) @@ (XL :> 140) @@ (XXL :> 160)

-----------------------------------------------------------------------------
(* String methods of the handler *)

RECURSIVE replaceAllCommas(_)
\* value.replaceAll(',', ' ')
replaceAllCommas(text) ==
  IF text = <<>> THEN <<>>
  ELSE <<IF Head(text) = "," THEN " " ELSE Head(text)>> \o replaceAllCommas(Tail(text))

RECURSIVE replaceAllDoubleSpaces(_)
\* .replaceAll('  ', ' '): one pass, left to right, over non-overlapping matches
replaceAllDoubleSpaces(text) ==
  IF Len(text) < 2 THEN text
  ELSE IF text[1] = " " /\ text[2] = " "
       THEN <<" ">> \o replaceAllDoubleSpaces(Tail(Tail(text)))
       ELSE <<text[1]>> \o replaceAllDoubleSpaces(Tail(text))

RECURSIVE trimStart(_)
trimStart(text) ==
  IF text # <<>> /\ Head(text) = " " THEN trimStart(Tail(text)) ELSE text

RECURSIVE trimEnd(_)
trimEnd(text) ==
  IF text # <<>> /\ text[Len(text)] = " "
  THEN trimEnd(SubSeq(text, 1, Len(text) - 1))
  ELSE text

\* .trim()
trim(text) == trimEnd(trimStart(text))

RECURSIVE splitFrom(_, _, _)
\* the pieces of text after the piece `piece` that is being read
splitFrom(text, sep, piece) ==
  IF text = <<>> THEN <<piece>>
  ELSE IF Head(text) = sep
       THEN <<piece>> \o splitFrom(Tail(text), sep, <<>>)
       ELSE splitFrom(Tail(text), sep, Append(piece, Head(text)))

\* text.split(sep) for a one-character separator: '' gives [''], and two
\* separators in a row give an empty piece
split(text, sep) == splitFrom(text, sep, <<>>)

\* size.includes('/')
includesSlash(tok) == \E i \in DOMAIN tok : tok[i] = "/"

\* line 74
tokenize(value) == split(trim(replaceAllDoubleSpaces(replaceAllCommas(value))), " ")

-----------------------------------------------------------------------------
(* Validation, lines 76-82 *)

\* Object.keys(sizingToWeeks).includes(s)
isSizeKey(s) == \E i \in DOMAIN SizeKeys : SizeKeys[i] = s

\* lines 79-80 with some() for every(): the mutant of isValidSize
isValidSizeSome(tok) ==
  \/ isSizeKey(tok)
  \/ LET parts == split(tok, "/") IN \E i \in DOMAIN parts : isSizeKey(parts[i])

\* the callback of sizes.every, lines 78-80
isValidSize(tok) ==
  \/ isSizeKey(tok)
  \/ LET parts == split(tok, "/") IN \A i \in DOMAIN parts : isSizeKey(parts[i])

\* sizes.every(...), lines 77-81
everySizeValid(toks) == \A i \in DOMAIN toks : isValidSize(toks[i])

-----------------------------------------------------------------------------
(* getSizingFromNumberOfWeeks, lines 53-63 *)

RECURSIVE reverse(_)
reverse(seq) == IF seq = <<>> THEN <<>> ELSE Append(reverse(Tail(seq)), Head(seq))

RECURSIVE scanStrict(_, _, _)
\* the loop of lines 56-60 with < for <=
scanStrict(entries, weeks, actualSize) ==
  IF entries = <<>> THEN actualSize
  ELSE scanStrict(Tail(entries), weeks,
                  IF weeks < sizingToWeeks[Head(entries)] THEN Head(entries) ELSE actualSize)

RECURSIVE scan(_, _, _)
\* the loop of lines 56-60 over the entries that are left
scan(entries, weeks, actualSize) ==
  IF entries = <<>> THEN actualSize
  ELSE scan(Tail(entries), weeks,
            IF weeks <= sizingToWeeks[Head(entries)] THEN Head(entries) ELSE actualSize)

\* mutant: numberOfWeeks < week
getSizingStrict(weeks) == scanStrict(reverse(SizeKeys), weeks, XXL)

\* mutant: the entries are not reversed
getSizingNoReverse(weeks) == scan(SizeKeys, weeks, XXL)

getSizingFromNumberOfWeeks(weeks) == scan(reverse(SizeKeys), weeks, XXL)

-----------------------------------------------------------------------------
(* computeSizing, lines 16-51 *)

\* lines 17-24
zeroCount == [k \in Size |-> [min |-> 0, max |-> 0]]

\* sizeCount[key].min += 1; a key that is no Size reads undefined: TypeError
incMin(st, key) ==
  IF st.threw \/ key \notin DOMAIN st.count
  THEN [st EXCEPT !.threw = TRUE]
  ELSE [st EXCEPT !.count[key].min = @ + 1]

incMax(st, key) ==
  IF st.threw \/ key \notin DOMAIN st.count
  THEN [st EXCEPT !.threw = TRUE]
  ELSE [st EXCEPT !.count[key].max = @ + 1]

\* mutant of countOne: the two sides of a pair are exchanged
countOneSwapped(st, tok) ==
  IF includesSlash(tok)
  THEN LET minMaxSize == split(tok, "/") IN incMax(incMin(st, minMaxSize[2]), minMaxSize[1])
  ELSE incMax(incMin(st, tok), tok)

\* mutant of countOne: the lighter label of a pair goes to min, the heavier to max
countOneSorted(st, tok) ==
  IF includesSlash(tok)
  THEN LET minMaxSize == split(tok, "/")
           a == minMaxSize[1]
           b == minMaxSize[2]
       IN IF a \in Size /\ b \in Size /\ sizingToWeeks[a] > sizingToWeeks[b]
          THEN incMax(incMin(st, b), a)
          ELSE incMax(incMin(st, a), b)
  ELSE incMax(incMin(st, tok), tok)

\* the body of the loop, lines 27-34.  split('/') of a text with a '/' has
\* at least two pieces, so minMaxSize[0] and minMaxSize[1] both exist
countOne(st, tok) ==
  IF includesSlash(tok)
  THEN LET minMaxSize == split(tok, "/") IN incMax(incMin(st, minMaxSize[1]), minMaxSize[2])
  ELSE incMax(incMin(st, tok), tok)

RECURSIVE countLoop(_, _)
\* for (const size of sizes), lines 26-35
countLoop(st, toks) ==
  IF toks = <<>> THEN st ELSE countLoop(countOne(st, Head(toks)), Tail(toks))

RECURSIVE weeksLoop(_, _, _)
\* lines 37-45 for one side: the sum of count * ratio over Object.entries(sizeCount)
weeksLoop(count, side, keys) ==
  IF keys = <<>> THEN 0
  ELSE LET key == keys[Len(keys)]
           n == IF side = "min" THEN count[key].min ELSE count[key].max
       IN weeksLoop(count, side, SubSeq(keys, 1, Len(keys) - 1)) + n * sizingToWeeks[key]

\* [threw, count, sizeMin, sizeMax]: the return value of lines 47-50, the
\* counters after the loop, and whether the loop threw
computeSizing(toks) ==
  LET st == countLoop([threw |-> FALSE, count |-> zeroCount], toks) IN
  IF st.threw
  THEN [threw |-> TRUE, count |-> st.count, sizeMin |-> <<>>, sizeMax |-> <<>>]
  ELSE [threw |-> FALSE, count |-> st.count,
        sizeMin |-> getSizingFromNumberOfWeeks(weeksLoop(st.count, "min", SizeKeys)),
        sizeMax |-> getSizingFromNumberOfWeeks(weeksLoop(st.count, "max", SizeKeys))]

-----------------------------------------------------------------------------
(* App: the signals, handleSetSignal and the view *)

\* lines 71-91.  A TypeError of computeSizing leaves the handler after
\* setError('') and before the two setters of lines 86-87
handleSetSignal(value) ==
  LET toks == tokenize(value) IN
  /\ size' = value
  /\ sizes' = toks
  /\ IF everySizeValid(toks)
     THEN LET computedSizes == computeSizing(toks) IN
          /\ error' = ""
          /\ called' = TRUE
          /\ thrown' = computedSizes.threw
          /\ sizeCount' = computedSizes.count
          /\ minComputedSize' =
               IF computedSizes.threw THEN minComputedSize ELSE computedSizes.sizeMin
          /\ maxComputedSize' =
               IF computedSizes.threw THEN maxComputedSize ELSE computedSizes.sizeMax
     ELSE /\ error' = "Invalid formatting"
          /\ called' = FALSE
          /\ thrown' = FALSE
          /\ UNCHANGED <<sizeCount, minComputedSize, maxComputedSize>>

\* lines 121-140: what the two nested Show render
view ==
  IF error # "" THEN [kind |-> "error", text |-> error, badges |-> <<>>]
  ELSE IF minComputedSize = maxComputedSize
       THEN [kind |-> "one", text |-> "", badges |-> <<minComputedSize>>]
       ELSE [kind |-> "two", text |-> "", badges |-> <<minComputedSize, maxComputedSize>>]

\* lines 66-69: the signals after createSignal('')
signalsInit ==
  /\ size = <<>>
  /\ error = ""
  /\ minComputedSize = <<>>
  /\ maxComputedSize = <<>>

ghostInit ==
  /\ sizes = <<>>
  /\ sizeCount = zeroCount
  /\ called = FALSE
  /\ thrown = FALSE

-----------------------------------------------------------------------------
(* Spec: the running application, any sequence of input events *)

\* texts longer than MaxEventLen that a user may also type or paste
SampleValues ==
  { <<"S", "/", "M", "/", "L">>,
    <<"S", " ", " ", " ", "M">>,
    <<"S", ",", " ", ",", "M">>,
    <<"X", "S", ",", "S", " ", "M">>,
    <<"X", "L", "/", "X", "S">>,
    <<"S", "/", "M">>,
    <<"X", "X", "L">>,
    <<"S", ",", "s">>,
    <<"M", " ", "M", " ", "M">> }

EventValues == Texts(MaxEventLen) \cup SampleValues

Init ==
  /\ signalsInit
  /\ ghostInit
  /\ pending = <<>>
  /\ numberOfWeeks = 0
  /\ ret = <<>>
  /\ pc = "app"

\* line 117: onInput={(event) => handleSetSignal(event.target.value)}
OnInput(value) ==
  /\ pc = "app"
  /\ pending = <<>>
  /\ handleSetSignal(value)
  /\ UNCHANGED <<pending, numberOfWeeks, ret, pc>>

Next == \E value \in EventValues : OnInput(value)

Spec == Init /\ [][Next]_vars

-----------------------------------------------------------------------------
(* SpecInput: one input event with any text up to MaxTextLen, dispatched   *)
(* to a freshly constructed application                                    *)

InitInput ==
  /\ signalsInit
  /\ ghostInit
  /\ pending \in {<<value>> : value \in Texts(MaxTextLen)}
  /\ numberOfWeeks = 0
  /\ ret = <<>>
  /\ pc = "app"

\* line 117 for the event that is waiting
Dispatch ==
  /\ pc = "app"
  /\ pending # <<>>
  /\ handleSetSignal(Head(pending))
  /\ pending' = Tail(pending)
  /\ pc' = "done"
  /\ UNCHANGED <<numberOfWeeks, ret>>

NextInput == Dispatch

SpecInput == InitInput /\ [][NextInput]_vars

-----------------------------------------------------------------------------
(* SpecSizes: computeSizing applied to a token list that passes the        *)
(* validation of handleSetSignal                                           *)

\* tokens: the six labels, pairs in both orders, tokens with more than one
\* '/', and tokens that the validation refuses
TokenPool ==
  Size
  \cup { XS \o <<"/">> \o S, S \o <<"/">> \o M, M \o <<"/">> \o L,
         L \o <<"/">> \o XL, XL \o <<"/">> \o XXL, XS \o <<"/">> \o XXL,
         S \o <<"/">> \o S, M \o <<"/">> \o S, XL \o <<"/">> \o XS,
         XXL \o <<"/">> \o L }
  \cup { S \o <<"/">> \o M \o <<"/">> \o L, XL \o <<"/">> \o XS \o <<"/">> \o XXL }
  \cup { <<>>, <<"X">>, <<"S", "/">>, <<"/", "M">> }

TokenLists == UNION {[1..k -> TokenPool] : k \in 1..MaxTokens}

InitSizes ==
  /\ signalsInit
  /\ sizes \in {toks \in TokenLists : everySizeValid(toks)}
  /\ sizeCount = zeroCount
  /\ called = FALSE
  /\ thrown = FALSE
  /\ pending = <<>>
  /\ numberOfWeeks = 0
  /\ ret = <<>>
  /\ pc = "call"

\* line 85: computeSizing(sizes)
CallComputeSizing ==
  /\ pc = "call"
  /\ LET computedSizes == computeSizing(sizes) IN
     /\ called' = TRUE
     /\ thrown' = computedSizes.threw
     /\ sizeCount' = computedSizes.count
     /\ ret' = [sizeMin |-> computedSizes.sizeMin, sizeMax |-> computedSizes.sizeMax]
  /\ pc' = "done"
  /\ UNCHANGED <<size, error, minComputedSize, maxComputedSize, sizes, pending,
                 numberOfWeeks>>

NextSizes == CallComputeSizing

SpecSizes == InitSizes /\ [][NextSizes]_vars

-----------------------------------------------------------------------------
(* SpecWeeks: getSizingFromNumberOfWeeks applied to a total *)

InitWeeks ==
  /\ signalsInit
  /\ ghostInit
  /\ pending = <<>>
  /\ numberOfWeeks \in 0..MaxWeeks
  /\ ret = <<>>
  /\ pc = "call"

\* lines 48-49: getSizingFromNumberOfWeeks(numberOfWeeks)
CallGetSizing ==
  /\ pc = "call"
  /\ ret' = getSizingFromNumberOfWeeks(numberOfWeeks)
  /\ pc' = "done"
  /\ UNCHANGED <<size, error, minComputedSize, maxComputedSize, sizes, sizeCount,
                 called, thrown, pending, numberOfWeeks>>

NextWeeks == CallGetSizing

SpecWeeks == InitWeeks /\ [][NextWeeks]_vars

-----------------------------------------------------------------------------
(* What the specification says, stated without the code's operators *)

\* section 4.1: a label, or a label, exactly one '/', and a label
wellFormedToken(tok) ==
  tok \in Size \/ \E a, b \in Size : tok = a \o <<"/">> \o b

\* the first and the second label of a well-formed token
minSide(tok) ==
  IF tok \in Size THEN tok
  ELSE CHOOSE a \in Size : \E b \in Size : tok = a \o <<"/">> \o b

maxSide(tok) ==
  IF tok \in Size THEN tok
  ELSE CHOOSE b \in Size : \E a \in Size : tok = a \o <<"/">> \o b

RECURSIVE wordsFrom(_, _)
wordsFrom(text, word) ==
  LET closed == IF word = <<>> THEN <<>> ELSE <<word>> IN
  IF text = <<>> THEN closed
  ELSE IF Head(text) \in Separators
       THEN closed \o wordsFrom(Tail(text), <<>>)
       ELSE wordsFrom(Tail(text), Append(word, Head(text)))

\* section 3: the tokens of a text, any run of separators being one separator
specTokens(text) == wordsFrom(text, <<>>)

allWellFormed(toks) == \A i \in DOMAIN toks : wellFormedToken(toks[i])

\* a text that holds at least one token, and well-formed tokens only
validInput(text) == specTokens(text) # <<>> /\ allWellFormed(specTokens(text))

RECURSIVE dropLeading(_)
dropLeading(text) ==
  IF text # <<>> /\ Head(text) \in Separators THEN dropLeading(Tail(text)) ELSE text

RECURSIVE dropTrailing(_)
dropTrailing(text) ==
  IF text # <<>> /\ text[Len(text)] \in Separators
  THEN dropTrailing(SubSeq(text, 1, Len(text) - 1))
  ELSE text

\* the text without the separators before its first and after its last token
trimSeparators(text) == dropTrailing(dropLeading(text))

separatorsOnly(text) == \A i \in DOMAIN text : text[i] \in Separators

RECURSIVE minSideSum(_)
minSideSum(toks) ==
  IF toks = <<>> THEN 0 ELSE sizingToWeeks[minSide(Head(toks))] + minSideSum(Tail(toks))

RECURSIVE maxSideSum(_)
maxSideSum(toks) ==
  IF toks = <<>> THEN 0 ELSE sizingToWeeks[maxSide(Head(toks))] + maxSideSum(Tail(toks))

\* section 4.3: the smallest label whose weight is >= total, XXL above every weight
smallestSizeAtLeast(total) ==
  IF \E k \in Size : sizingToWeeks[k] >= total
  THEN CHOOSE k \in Size :
         /\ sizingToWeeks[k] >= total
         /\ \A j \in Size : sizingToWeeks[j] >= total => sizingToWeeks[k] <= sizingToWeeks[j]
  ELSE XXL

RECURSIVE sumOver(_, _, _)
sumOver(count, side, keys) ==
  IF keys = {} THEN 0
  ELSE LET k == CHOOSE x \in keys : TRUE IN
       (IF side = "min" THEN count[k].min ELSE count[k].max)
         + sumOver(count, side, keys \ {k})

-----------------------------------------------------------------------------
(* The claims *)

\* C1: handleSetSignal accepts an input (clears the error and runs
\* computeSizing) only if every token of its token list is one of the six
\* labels or a label, exactly one '/', and a label; any other token ends the
\* input in 'Invalid formatting'.  Refuted by the text S/M/L.
C1_OnlyWellFormedAccepted ==
  pc = "done" =>
    ((\E i \in DOMAIN sizes : ~wellFormedToken(sizes[i]))
       => error = "Invalid formatting" /\ ~called)

\* C1, what is left of it: a token with at most one '/' is accepted only if
\* it is well formed (unknown labels, wrong case, empty sides are refused).
C1_ExceptSeveralSlashes ==
  pc = "done" /\ error = "" =>
    \A i \in DOMAIN sizes :
      Cardinality({j \in DOMAIN sizes[i] : sizes[i][j] = "/"}) <= 1
        => wellFormedToken(sizes[i])

\* C2: any run of one or more separators between two tokens counts as one
\* separator: the token list is the list of the words of the text, and holds
\* no empty token.  Refuted by S, three spaces, M.
C2_SeparatorRunsCollapse ==
  pc = "done" /\ specTokens(size) # <<>> => sizes = specTokens(size)

\* C2, what is left of it: when no run of separators between two tokens is
\* longer than two, the token list is the list of the words of the text.
C2_RunsOfAtMostTwo ==
  pc = "done" /\ specTokens(size) # <<>>
    /\ (\A i \in 1..(Len(trimSeparators(size)) - 2) :
          \E j \in i..(i + 2) : trimSeparators(size)[j] \notin Separators)
    => sizes = specTokens(size)

\* C3: getSizingFromNumberOfWeeks returns the smallest label whose weight is
\* >= the total, and XXL when the total exceeds 16.
C3_SmallestLabelAtLeast ==
  pc = "done" => ret = smallestSizeAtLeast(numberOfWeeks)

\* C3 witness: the total 3 is mapped to M, the label of weight exactly 3.
C3_Witness == pc = "done" /\ numberOfWeeks = 30 /\ ret = M

\* C4: for a validated list of single and pair tokens, sizeMin is the
\* threshold of the sum of the weights of the first labels and sizeMax that
\* of the second labels, by position and whatever their weights.
C4_SidesByPosition ==
  pc = "done" /\ allWellFormed(sizes) =>
    /\ ~thrown
    /\ ret.sizeMin = smallestSizeAtLeast(minSideSum(sizes))
    /\ ret.sizeMax = smallestSizeAtLeast(maxSideSum(sizes))

\* C4 witness: XL/XS alone gives sizeMin = XL and sizeMax = XS.
C4_Witness ==
  /\ pc = "done"
  /\ sizes = <<XL \o <<"/">> \o XS>>
  /\ ret = [sizeMin |-> XL, sizeMax |-> XS]

\* C5: if the latest input holds at least one invalid token, the error is
\* 'Invalid formatting', computeSizing did not run on it, and the view shows
\* the error and no badge.  Refuted by the text S/M/L (the bug of C1).
C5_InvalidTokenHidesResult ==
  (\E i \in DOMAIN specTokens(size) : ~wellFormedToken(specTokens(size)[i]))
    => /\ error = "Invalid formatting"
       /\ ~called
       /\ view.kind = "error"
       /\ view.badges = <<>>

\* C5, what is left of it: an input that is refused shows the error and no
\* badge, whatever was computed before, and computeSizing did not run on it;
\* and an input with a token that the validation refuses is refused whole.
C5_RefusedShowsOnlyError ==
  /\ error # "" => ~called /\ view.kind = "error" /\ view.badges = <<>>
  /\ (\E i \in DOMAIN sizes : ~isValidSize(sizes[i])) => error = "Invalid formatting"

\* C6: after any sequence of input events whose latest input is valid, the
\* error is empty and the stored pair is that of the latest input's tokens
\* alone.  Refuted by S, three spaces, M (the bug of C2).
C6_LatestValidInputDecides ==
  validInput(size) =>
    /\ error = ""
    /\ minComputedSize = smallestSizeAtLeast(minSideSum(specTokens(size)))
    /\ maxComputedSize = smallestSizeAtLeast(maxSideSum(specTokens(size)))

\* C6, what is left of it: whenever the latest input is accepted, the stored
\* pair is computeSizing of its token list, whatever came before.
C6_AcceptedInputDecides ==
  (size # <<>> /\ error = "") =>
    /\ called
    /\ ~thrown
    /\ allWellFormed(sizes) =>
         /\ minComputedSize = smallestSizeAtLeast(minSideSum(sizes))
         /\ maxComputedSize = smallestSizeAtLeast(maxSideSum(sizes))

\* C7: an input whose only token is a label gives sizeMin = sizeMax = that
\* label, for each of the six labels.
C7_SingleLabel ==
  pc = "done" =>
    \A k \in Size :
      specTokens(size) = <<k>> =>
        error = "" /\ minComputedSize = k /\ maxComputedSize = k

\* C7 witness: the text XS was dispatched and both sizes are XS.
C7_Witness ==
  /\ pc = "done"
  /\ size = XS
  /\ minComputedSize = XS
  /\ maxComputedSize = XS

\* C8: an input that is empty or made of separators only is refused with
\* 'Invalid formatting' and never reaches computeSizing, and computeSizing is
\* only called with a non-empty list of valid tokens.  Refuted by S/M/L (the
\* bug of C1).
C8_NonEmptyValidList ==
  pc = "done" =>
    /\ separatorsOnly(size) => error = "Invalid formatting" /\ ~called
    /\ called => sizes # <<>> /\ allWellFormed(sizes)

\* C8, what is left of it: separators alone are refused, and computeSizing
\* is called with a non-empty list of non-empty tokens.
C8_SeparatorsOnlyRefused ==
  pc = "done" =>
    /\ separatorsOnly(size) => error = "Invalid formatting" /\ ~called
    /\ called => sizes # <<>> /\ \A i \in DOMAIN sizes : sizes[i] # <<>>

\* C9: for a token list that passes the validation, every token adds 1 to
\* one min counter and 1 to one max counter of the six labels: both sums of
\* counters equal the number of tokens and no other key is touched.
C9_OneMinOneMaxPerToken ==
  pc = "done" =>
    /\ ~thrown
    /\ DOMAIN sizeCount = Size
    /\ sumOver(sizeCount, "min", Size) = Len(sizes)
    /\ sumOver(sizeCount, "max", Size) = Len(sizes)

\* C9 witness: three tokens, one of them with a '/', were counted.
C9_Witness ==
  /\ pc = "done"
  /\ Len(sizes) = 3
  /\ \E i \in DOMAIN sizes : includesSlash(sizes[i])
  /\ sumOver(sizeCount, "min", Size) = 3

\* C10: when every pair A/B of a well-formed list has weight(A) <= weight(B),
\* sizeMin <= sizeMax in the order of the labels.
C10_OrderedPairsGiveOrderedSizes ==
  (/\ pc = "done"
   /\ allWellFormed(sizes)
   /\ \A i \in DOMAIN sizes :
        sizingToWeeks[minSide(sizes[i])] <= sizingToWeeks[maxSide(sizes[i])])
    => sizingToWeeks[ret.sizeMin] <= sizingToWeeks[ret.sizeMax]

\* C10 witness: a list with the pair S/M whose sizes differ.
C10_Witness ==
  /\ pc = "done"
  /\ \E i \in DOMAIN sizes : sizes[i] = S \o <<"/">> \o M
  /\ \A i \in DOMAIN sizes :
       wellFormedToken(sizes[i])
         /\ sizingToWeeks[minSide(sizes[i])] <= sizingToWeeks[maxSide(sizes[i])]
  /\ sizingToWeeks[ret.sizeMin] < sizingToWeeks[ret.sizeMax]

\* C10, second half: without the condition on the pairs the order can be
\* reversed; this state, sizeMin > sizeMax, is reachable.
C10_Reversed ==
  /\ pc = "done"
  /\ allWellFormed(sizes)
  /\ sizingToWeeks[ret.sizeMin] > sizingToWeeks[ret.sizeMax]

====
